---- MODULE Spec2Model ----
(***************************************************************************)
(* Conversation state and durability of the TAHS LINE bot.                 *)
(*                                                                         *)
(*   agent.py  module-level load of MEMORY_FILE, save_memory,              *)
(*             get_agent_response (one turn, suspended once on the model)  *)
(*   main.py   handle_message (runs a turn and sends the reply)            *)
(*                                                                         *)
(* The process is a single event loop (nest_asyncio): the code of a turn   *)
(* runs without interruption up to `await asyncio.wait_for(...)` and again *)
(* from the resumption to the return, and other turns run in between.      *)
(***************************************************************************)
EXTENDS Integers, Sequences, FiniteSets, TLC

\* ---------------------------------------------------------------- bounds
MaxEvents == 4      \* deliveries, ended model calls and crashes in one behaviour

Users == {"U1", "U2"}
\* The n-th webhook delivery carries the text InboundText(n): the texts of a
\* behaviour are pairwise distinct, so a misplaced message shows.
InboundText(n) == <<"m1", "m2", "m3", "m4", "m5", "m6">>[n]
ModelTexts == {"g1"}              \* texts the hosted model may return

\* ------------------------------------------------------- program strings
SYSTEM_PROMPT == "system_prompt"  \* agent.py:103-140, the fixed instructions
timeout_reply == "timeout_reply"  \* agent.py:235
fallback == "fallback"            \* agent.py:242
technical_issue == "technical_issue" \* main.py:75
FETCHING == "Fetching..."         \* agent.py:148, the unresolved sentinel
UNKNOWN == "Unknown"              \* agent.py:170

\* ------------------------------------------------------------- dict helpers
EmptyDict == [k \in {} |-> k]

Put(d, k, v) == [x \in (DOMAIN d) \cup {k} |-> IF x = k THEN v ELSE d[x]]

\* dict.get(k, default)
Get(d, k, default) == IF k \in DOMAIN d THEN d[k] ELSE default

\* ------------------------------------------------ in-memory message objects
\* The system entry is a plain dict, the turns are LangChain objects.
SystemMsg == [cls |-> "dict", d |-> [role |-> "system", content |-> SYSTEM_PROMPT]]

HumanMessage(c) == [cls |-> "HumanMessage", content |-> c]

AIMessage(c) == [cls |-> "AIMessage", content |-> c]

RawDict(j) == [cls |-> "dict", d |-> j]

\* ------------------------------------------------------------ save_memory
\* A faulty variant of SerializeMsg: the system entry is not written.
SerializeMsgNoSystem(msg) ==
    IF msg.cls = "HumanMessage" THEN <<[type |-> "human", content |-> msg.content]>>
    ELSE IF msg.cls = "AIMessage" THEN <<[type |-> "ai", content |-> msg.content]>>
    ELSE <<>>

\* agent.py:84-90  one message as written to the document: zero or one JSON
\* object (a message of no known kind is left out).
SerializeMsg(msg) ==
    IF msg.cls = "HumanMessage" THEN <<[type |-> "human", content |-> msg.content]>>
    ELSE IF msg.cls = "AIMessage" THEN <<[type |-> "ai", content |-> msg.content]>>
    ELSE IF msg.cls = "dict" /\ Get(msg.d, "role", "") = "system" THEN <<msg.d>>
    ELSE <<>>

RECURSIVE SerializeHistory(_)
SerializeHistory(history) ==
    IF history = <<>> THEN <<>>
    ELSE SerializeMsg(Head(history)) \o SerializeHistory(Tail(history))

\* The document save_memory dumps.
Serializable(conv, prof) ==
    [conversations |-> [u \in DOMAIN conv |-> SerializeHistory(conv[u])],
     profiles |-> prof]

\* The file: absent, present with bytes json.load rejects, or a JSON document.
Missing == [kind |-> "missing", doc |-> EmptyDict]
Undecodable == [kind |-> "undecodable", doc |-> EmptyDict]
Document(doc) == [kind |-> "doc", doc |-> doc]

\* The file after save_memory; res is how the write went.
\*   "ok"           the document was written in full
\*   "open_failed"  open() raised: the file is as before
\*   "write_failed" open() truncated the file and json.dump raised part-way
WriteFile(file, conv, prof, res) ==
    IF res = "ok" THEN Document(Serializable(conv, prof))
    ELSE IF res = "open_failed" THEN file
    ELSE Undecodable

SaveResults == {"ok", "open_failed", "write_failed"}

\* ------------------------------------------------------------ startup load
EmptyStore == [conversations |-> EmptyDict, profiles |-> EmptyDict]

\* msg["content"] raises KeyError for a human/ai entry without content.
EntryRaises(j) == Get(j, "type", "") \in {"human", "ai"} /\ "content" \notin DOMAIN j

LoadMsg(j) ==
    IF Get(j, "type", "") = "human" THEN HumanMessage(j["content"])
    ELSE IF Get(j, "type", "") = "ai" THEN AIMessage(j["content"])
    ELSE RawDict(j)

LoadDocument(doc) ==
    LET convs == Get(doc, "conversations", EmptyDict)
        profs == Get(doc, "profiles", EmptyDict)
    IN  IF \E u \in DOMAIN convs : \E i \in DOMAIN convs[u] : EntryRaises(convs[u][i])
        THEN EmptyStore
        ELSE [conversations |-> [u \in DOMAIN convs |->
                                   [i \in DOMAIN convs[u] |-> LoadMsg(convs[u][i])]],
              profiles |-> profs]

Load(file) ==
    IF file.kind = "missing" THEN EmptyStore
    ELSE IF file.kind = "undecodable" THEN EmptyStore
    ELSE LoadDocument(file.doc)

\* ------------------------------------------------------------------ state
VARIABLES
    conversations,  \* agent.py:56/68/72  user id -> list of messages
    user_profiles,  \* agent.py:49/57     user id -> profile dict
    MEMORY_FILE,    \* agent.py:46        the file /data/memory.json
    inflight,       \* turns suspended on the model call (agent.py:186)
    started,        \* webhook deliveries handled so far; also the clock
    crashes,        \* process crashes so far
    returned,       \* turns that ran to their return so far
    fetches,        \* user id -> get_profile calls this process made for the user
    log,            \* user id -> <<text, reply>> of the turns this process returned
    clean,          \* user id -> no two turns of the user overlapped in this process
    boot,           \* the conversations as loaded when this process started
    stale,          \* the latest save_memory of this process raised
    last            \* what the last step did

vars == <<conversations, user_profiles, MEMORY_FILE, inflight, started, crashes,
          returned, fetches, log, clean, boot, stale, last>>

\* ------------------------------------------------------ files found at startup
\* A profile as a turn leaves it ("zh-Hant" stands for the language name of
\* agent.py:147).
SavedProfile ==
    [first_interaction |-> 0, total_messages |-> 1, language_preference |-> "zh-Hant",
     display_name |-> "Alice", username |-> "", picture_url |-> "pic"]

\* A store an earlier process left behind: one completed turn of U1.
SavedStore ==
    [conversations |-> [u \in {"U1"} |->
                          <<SystemMsg, HumanMessage("m0"), AIMessage("g0")>>],
     profiles |-> [u \in {"U1"} |-> SavedProfile]]

SavedDocument == Serializable(SavedStore.conversations, SavedStore.profiles)

\* Wrong schema: the same document without its profiles map.
NoProfilesDocument == [conversations |-> SavedDocument.conversations]

\* Wrong schema: a conversation entry without content.
NoContentDocument ==
    [conversations |-> [u \in {"U1"} |->
                          <<SystemMsg.d, [type |-> "human"]>>],
     profiles |-> SavedStore.profiles]

StartupFiles ==
    {Missing, Undecodable, Document(SavedDocument), Document(NoProfilesDocument),
     Document(NoContentDocument)}

\* What a process starts with: the module-level load and fresh bookkeeping.
Boot(file) ==
    /\ conversations' = Load(file).conversations
    /\ user_profiles' = Load(file).profiles
    /\ inflight' = {}
    /\ fetches' = [u \in Users |-> 0]
    /\ log' = [u \in Users |-> <<>>]
    /\ clean' = [u \in Users |-> TRUE]
    /\ boot' = Load(file).conversations
    /\ stale' = FALSE

NoStep ==
    [kind |-> "boot", user |-> "", text |-> "", outcome |-> "", model |-> "",
     reply |-> "", sent |-> {}, ev |-> <<>>, rows |-> <<>>, history |-> <<>>]

Init ==
    /\ MEMORY_FILE \in StartupFiles
    /\ conversations = Load(MEMORY_FILE).conversations
    /\ user_profiles = Load(MEMORY_FILE).profiles
    /\ inflight = {}
    /\ started = 0
    /\ crashes = 0
    /\ returned = 0
    /\ fetches = [u \in Users |-> 0]
    /\ log = [u \in Users |-> <<>>]
    /\ clean = [u \in Users |-> TRUE]
    /\ boot = Load(MEMORY_FILE).conversations
    /\ stale = FALSE
    /\ last = NoStep

\* --------------------------------------- get_agent_response, up to the await
\* agent.py:144-151  the profile of a user at first contact
NewProfile(now) ==
    [first_interaction |-> now, total_messages |-> 0, language_preference |-> "zh-Hant",
     display_name |-> FETCHING, username |-> "", picture_url |-> ""]

\* A faulty variant of EnsureConversation: without the presence check.
EnsureAlways(conv, prof, u, now) ==
    [conv |-> Put(conv, u, <<SystemMsg>>), prof |-> Put(prof, u, NewProfile(now))]

\* agent.py:99-151  initialise an unseen user id
EnsureConversation(conv, prof, u, now) ==
    IF u \notin DOMAIN conv
    THEN [conv |-> Put(conv, u, <<SystemMsg>>), prof |-> Put(prof, u, NewProfile(now))]
    ELSE [conv |-> conv, prof |-> prof]

\* What line_bot_api.get_profile may do: return a profile, or raise.
FetchResults ==
    {[ok |-> TRUE, display_name |-> "Alice", picture_url |-> "pic"],
     [ok |-> TRUE, display_name |-> FETCHING, picture_url |-> ""],
     [ok |-> FALSE, display_name |-> "", picture_url |-> ""]}

\* agent.py:159  the profile is fetched while display_name is the sentinel
NeedsFetch(p) == p["display_name"] = FETCHING

\* agent.py:160-173
ResolveProfile(p, fr) ==
    IF fr.ok
    THEN [p EXCEPT !["display_name"] = fr.display_name, !["username"] = "",
                   !["picture_url"] = fr.picture_url]
    ELSE [p EXCEPT !["display_name"] = UNKNOWN, !["username"] = "",
                   !["picture_url"] = ""]

\* A faulty variant of RecordUser: the message is put right after the first entry.
RecordUserFirst(history, text) == <<Head(history), HumanMessage(text)>> \o Tail(history)

\* agent.py:176  history.append(HumanMessage(...))
RecordUser(history, text) == Append(history, HumanMessage(text))

\* A faulty variant of Prompt: the last entry of the history is left out.
PromptWithoutLast(history) == SubSeq(history, 1, Len(history) - 1)

\* agent.py:179-187  the prompt is one MessagesPlaceholder filled with
\* history: the messages handed to the model are the entries of the list.
Prompt(history) == history

\* agent.py:97-189  the turn from its call to its suspension on the model.
\* raised: a KeyError left get_agent_response (agent.py:156 or 159).
\* handed: the messages the model is invoked with.
BeginTurn(conv, prof, u, text, now, fr) ==
    LET s1 == EnsureConversation(conv, prof, u, now)
    IN  IF u \notin DOMAIN s1.prof
        THEN [raised |-> TRUE, conv |-> s1.conv, prof |-> s1.prof, fetched |-> FALSE,
              handed |-> <<>>]
        ELSE
        LET p1 == Put(s1.prof[u], "total_messages",
                      Get(s1.prof[u], "total_messages", 0) + 1)
        IN  IF "display_name" \notin DOMAIN p1
            THEN [raised |-> TRUE, conv |-> s1.conv, prof |-> Put(s1.prof, u, p1),
                  fetched |-> FALSE, handed |-> <<>>]
            ELSE
            LET fetch == NeedsFetch(p1)
                p2 == IF fetch THEN ResolveProfile(p1, fr) ELSE p1
                history == RecordUser(s1.conv[u], text)
            IN  [raised |-> FALSE,
                 conv |-> Put(s1.conv, u, history),
                 prof |-> Put(s1.prof, u, p2),
                 fetched |-> fetch,
                 handed |-> Prompt(history)]

\* How line_bot_api.reply_message goes in handle_message: the reply is sent;
\* or sending it raises and the apology is sent; or both calls raise.
Deliveries == {"sent", "first_failed", "both_failed"}

\* main.py:57-78  what the user receives once the turn has returned or raised
Sent(raised, reply, dlv) ==
    IF ~raised /\ dlv = "sent" THEN reply
    ELSE IF dlv = "both_failed" THEN "nothing"
    ELSE technical_issue

\* The texts handle_message may end up sending, over all that reply_message may do.
Sendable(raised, reply) == {Sent(raised, reply, dlv) : dlv \in Deliveries}

\* A webhook delivery: handle_message calls get_agent_response, which runs to
\* its await (or raises, and handle_message sends its own text).
Start(u, fr) ==
    /\ started + crashes + returned < MaxEvents
    /\ LET text == InboundText(started + 1)
           b == BeginTurn(conversations, user_profiles, u, text, started + 1, fr)
       IN  /\ conversations' = b.conv
           /\ user_profiles' = b.prof
           /\ started' = started + 1
           /\ fetches' = [fetches EXCEPT ![u] = @ + (IF b.fetched THEN 1 ELSE 0)]
           /\ IF b.raised
              THEN /\ inflight' = inflight
                   /\ clean' = clean
                   /\ last' = [kind |-> "raised", user |-> u, text |-> text,
                               outcome |-> "raised", model |-> "", reply |-> "",
                               sent |-> Sendable(TRUE, ""), ev |-> <<"raise">>,
                               rows |-> <<>>, history |-> b.handed]
              ELSE /\ inflight' = inflight \cup
                                    {[id |-> started + 1, user |-> u, text |-> text]}
                   /\ clean' = [clean EXCEPT
                                   ![u] = @ /\ ~(\E t \in inflight : t.user = u)]
                   /\ last' = [kind |-> "start", user |-> u, text |-> text,
                               outcome |-> "pending", model |-> "", reply |-> "",
                               sent |-> {},
                               ev |-> (IF b.fetched THEN <<"get_profile">> ELSE <<>>)
                                      \o <<"append_user", "invoke">>,
                               rows |-> <<>>, history |-> b.handed]
    /\ UNCHANGED <<MEMORY_FILE, crashes, log, boot, stale, returned>>

\* ------------------------------------- get_agent_response, from the await on
\* How the awaited model call ends.
Outcomes == {"ok", "timeout", "error"}

\* agent.py:194, 236, 243  history.append(AIMessage(...))
RecordReply(history, reply) == Append(history, AIMessage(reply))

\* The running state st of a turn from its resumption on:
\*   conv, file, stale  the store's conversations, the file, the latest save raised
\*   reply              the text returned
\*   ev                 the operations performed, in order
\*   rows               the rows the audit sheet took, in order

\* A faulty variant of AppendReply: the reply goes to every conversation.
AppendReplyAll(st, u, reply) ==
    [st EXCEPT !.conv = [x \in DOMAIN @ |-> RecordReply(@[x], reply)],
               !.ev = Append(@, "append_assistant")]

\* agent.py:194, 236, 243  the reply goes to the end of the user's history
AppendReply(st, u, reply) ==
    [st EXCEPT !.conv = Put(@, u, RecordReply(@[u], reply)),
               !.ev = Append(@, "append_assistant")]

\* agent.py:200-217  the audit rows of a turn (of their columns: the user id,
\* the speaker and the text)
row_data(u, text) == <<u, "User", text>>

bot_row_data(u, bot_reply) == <<u, "Bot", bot_reply>>

\* What sheet.append_row may do: append the row, or raise.
SheetResults == {"ok", "raised"}

\* agent.py:219-222, 224-227  one sheet.append_row in its own try: an
\* exception is printed and the turn goes on.
AppendRow(st, op, row, res) ==
    [st EXCEPT !.ev = Append(@, op),
               !.rows = IF res = "ok" THEN Append(@, row) ELSE @]

\* A faulty variant of AppendRows: one try around both appends.
AppendRowsTogether(st, u, text, bot_reply, userRow, botRow) ==
    IF userRow = "ok"
    THEN AppendRow(AppendRow(st, "sheet_user", row_data(u, text), userRow),
                   "sheet_bot", bot_row_data(u, bot_reply), botRow)
    ELSE AppendRow(st, "sheet_user", row_data(u, text), userRow)

\* agent.py:196-227  the user row, then the reply row
AppendRows(st, u, text, bot_reply, userRow, botRow) ==
    AppendRow(AppendRow(st, "sheet_user", row_data(u, text), userRow),
              "sheet_bot", bot_row_data(u, bot_reply), botRow)

\* agent.py:75-95  save_memory never raises: a failure is printed.
save_memory(st, prof, res) ==
    [st EXCEPT !.file = WriteFile(@, st.conv, prof, res),
               !.stale = (res # "ok"),
               !.ev = Append(@, "save_memory")]

\* agent.py:232, 238, 245
Return(st, reply) == [st EXCEPT !.reply = reply, !.ev = Append(@, "return")]

\* agent.py:191-232  the model answered within the deadline
OnSuccess(st, prof, u, text, modelText, userRow, botRow, res) ==
    Return(save_memory(AppendRows(AppendReply(st, u, modelText),
                                  u, text, modelText, userRow, botRow),
                       prof, res),
           modelText)

\* A faulty variant of OnTimeout: the generic fallback is used.
OnTimeoutGeneric(st, prof, u, res) ==
    Return(save_memory(AppendReply(st, u, fallback), prof, res), fallback)

\* agent.py:234-238  asyncio.TimeoutError
OnTimeout(st, prof, u, res) ==
    Return(save_memory(AppendReply(st, u, timeout_reply), prof, res), timeout_reply)

\* A faulty variant of OnError: the store is not saved.
OnErrorNoSave(st, prof, u, res) == Return(AppendReply(st, u, fallback), fallback)

\* agent.py:240-245  any other exception
OnError(st, prof, u, res) ==
    Return(save_memory(AppendReply(st, u, fallback), prof, res), fallback)

\* agent.py:184-245  the turn from its resumption to its return
FinishTurn(conv, prof, file, wasStale, u, text, outcome, modelText, userRow, botRow, saveRes) ==
    LET st == [conv |-> conv, file |-> file, stale |-> wasStale, reply |-> "",
               ev |-> <<>>, rows |-> <<>>]
    IN  IF outcome = "ok"
        THEN OnSuccess(st, prof, u, text, modelText, userRow, botRow, saveRes)
        ELSE IF outcome = "timeout" THEN OnTimeout(st, prof, u, saveRes)
        ELSE OnError(st, prof, u, saveRes)

\* A model call that timed out or raised gave no text, and the turn then makes
\* no call to the sheet.
NoText == ""

NotCalled == "not_called"

\* The model call of turn t ends; the turn runs to its return and
\* handle_message sends the reply.
Resume(t, outcome, modelText, userRow, botRow, saveRes) ==
    /\ t \in inflight
    /\ started + crashes + returned < MaxEvents
    /\ returned' = returned + 1
    /\ LET f == FinishTurn(conversations, user_profiles, MEMORY_FILE, stale, t.user,
                           t.text, outcome, modelText, userRow, botRow, saveRes)
       IN  /\ conversations' = f.conv
           /\ MEMORY_FILE' = f.file
           /\ log' = [log EXCEPT ![t.user] = Append(@, <<t.text, f.reply>>)]
           /\ last' = [kind |-> "resume", user |-> t.user, text |-> t.text,
                       outcome |-> outcome, model |-> modelText, reply |-> f.reply,
                       sent |-> Sendable(FALSE, f.reply), ev |-> f.ev,
                       rows |-> f.rows, history |-> <<>>]
           /\ stale' = f.stale
    /\ inflight' = inflight \ {t}
    /\ UNCHANGED <<user_profiles, started, crashes, fetches, clean, boot>>

\* ----------------------------------------------------------------- crashes
CrashStep == [NoStep EXCEPT !.kind = "crash"]

\* The process dies while no save_memory is writing, and is started again:
\* the file is as the last write left it.
Crash ==
    /\ started + crashes + returned < MaxEvents
    /\ crashes' = crashes + 1
    /\ Boot(MEMORY_FILE)
    /\ last' = CrashStep
    /\ UNCHANGED <<MEMORY_FILE, started, returned>>

\* agent.py:91-92  the process dies inside save_memory of turn t, after open()
\* has truncated the file and before json.dump has written all of it; then it
\* is started again.
CrashInSave(t) ==
    /\ started + crashes + returned < MaxEvents
    /\ t \in inflight
    /\ crashes' = crashes + 1
    /\ MEMORY_FILE' = Undecodable
    /\ Boot(Undecodable)
    /\ last' = [CrashStep EXCEPT !.kind = "crash_in_save", !.user = t.user]
    /\ UNCHANGED <<started, returned>>

Next ==
    \/ \E u \in Users, fr \in FetchResults : Start(u, fr)
    \/ \E t \in inflight, modelText \in ModelTexts,
          userRow \in SheetResults, botRow \in SheetResults, saveRes \in SaveResults :
          Resume(t, "ok", modelText, userRow, botRow, saveRes)
    \/ \E t \in inflight, outcome \in Outcomes \ {"ok"}, saveRes \in SaveResults :
          Resume(t, outcome, NoText, NotCalled, NotCalled, saveRes)
    \/ Crash
    \/ \E t \in inflight : CrashInSave(t)

Spec == Init /\ [][Next]_vars

\* ================================================================== claims
InFlightOf(u) == {t \in inflight : t.user = u}

IsPrefix(a, b) == Len(a) <= Len(b) /\ SubSeq(b, 1, Len(a)) = a

IsSystem(msg) == msg.cls = "dict" /\ Get(msg.d, "role", "") = "system"

\* The messages of a sequence of returned turns <<text, reply>>.
RECURSIVE Exchanges(_)
Exchanges(turns) ==
    IF turns = <<>> THEN <<>>
    ELSE <<HumanMessage(Head(turns)[1]), AIMessage(Head(turns)[2])>>
         \o Exchanges(Tail(turns))

\* The conversation of u when this process first saw u: as loaded, or the
\* system message alone.
FirstSeen(u) == IF u \in DOMAIN boot THEN boot[u] ELSE <<SystemMsg>>

\* The user message of the turn of u that is suspended, if there is one.
Pending(u) ==
    IF InFlightOf(u) = {} THEN <<>>
    ELSE <<HumanMessage((CHOOSE t \in InFlightOf(u) : TRUE).text)>>

\* C1: when the turns of a user run one after another, the user's conversation
\* is the system message (or the loaded conversation) followed by
\* user_1, assistant_1, ..., user_N, assistant_N in that order, user_i being
\* the i-th inbound text and assistant_i the reply the i-th turn returned
\* (and then the user message of the turn that is suspended, if any).
C1_OrderPreserved ==
    \A u \in Users :
        (clean[u] /\ u \in DOMAIN conversations)
        => conversations[u] = FirstSeen(u) \o Exchanges(log[u]) \o Pending(u)

C1_Witness ==
    \E u \in Users :
        /\ u \notin DOMAIN boot
        /\ clean[u]
        /\ InFlightOf(u) = {}
        /\ Len(log[u]) = 2
        /\ log[u][1][2] # log[u][2][2]
        /\ Len(conversations[u]) = 5

\* C2: a turn's reply is the model's text on success, the timeout fallback on
\* a timeout and the generic fallback (another string) on any other failure;
\* the turn appends exactly the user message before the model call and exactly
\* one assistant message, the text it returns, after it.
C2_ReplyByOutcome ==
    [][ /\ timeout_reply # fallback
        /\ last'.kind = "start"
           => conversations'[last'.user]
                = Append(IF last'.user \in DOMAIN conversations
                         THEN conversations[last'.user] ELSE <<SystemMsg>>,
                         HumanMessage(last'.text))
        /\ last'.kind = "resume"
           => /\ last'.outcome = "ok" => last'.reply = last'.model
              /\ last'.outcome = "timeout" => last'.reply = timeout_reply
              /\ last'.outcome = "error" => last'.reply = fallback
              /\ conversations'[last'.user]
                   = Append(conversations[last'.user], AIMessage(last'.reply))
      ]_vars

C2_Witness ==
    /\ last.kind = "resume"
    /\ last.outcome = "timeout"
    /\ last.reply = timeout_reply
    /\ LET h == conversations[last.user]
       IN  /\ Len(h) >= 3
           /\ h[Len(h) - 1] = HumanMessage(last.text)
           /\ h[Len(h)] = AIMessage(timeout_reply)

\* C3: get_agent_response never raises into handle_message, and what the user
\* receives is the generated reply or one of the two fallback strings: no other
\* text, and never nothing.
C3_GenuineOrFallbackOnly ==
    /\ last.kind # "raised"
    /\ last.kind = "resume" => last.sent \subseteq (ModelTexts \cup {timeout_reply, fallback})

\* C4: no conversation holds two consecutive user messages, also when turns of
\* one user overlap.
C4_NoConsecutiveUsers ==
    \A u \in DOMAIN conversations :
        \A i \in 1..(Len(conversations[u]) - 1) :
            ~(/\ conversations[u][i].cls = "HumanMessage"
              /\ conversations[u][i + 1].cls = "HumanMessage")

\* C5: save_memory followed by the startup load gives back the store (the same
\* user ids, messages in order with role and content, the system message
\* included, and profiles), and saving the reloaded store gives the same file.
C5_RoundTrip ==
    LET file == WriteFile(MEMORY_FILE, conversations, user_profiles, "ok")
        store == Load(file)
    IN  /\ DOMAIN store.conversations = DOMAIN conversations
        /\ \A u \in DOMAIN conversations :
              /\ Len(store.conversations[u]) = Len(conversations[u])
              /\ \A i \in 1..Len(conversations[u]) :
                    store.conversations[u][i] = conversations[u][i]
        /\ store.profiles = user_profiles
        /\ WriteFile(file, store.conversations, store.profiles, "ok") = file

\* A process that was started on a file an earlier process of the model saved.
C5_Witness ==
    /\ last.kind = "crash"
    /\ MEMORY_FILE = Document(Serializable(conversations, user_profiles))
    /\ "U2" \in DOMAIN conversations
    /\ Len(conversations["U2"]) >= 3

\* The schema of the file: both top-level maps, every entry with its content.
WellFormed(doc) ==
    /\ {"conversations", "profiles"} \subseteq DOMAIN doc
    /\ \A u \in DOMAIN doc["conversations"] :
          \A i \in DOMAIN doc["conversations"][u] :
              "content" \in DOMAIN doc["conversations"][u][i]

Malformed(file) ==
    \/ file.kind = "undecodable"
    \/ file.kind = "doc" /\ ~WellFormed(file.doc)

JustStarted == last.kind \in {"boot", "crash", "crash_in_save"}

\* C6: the startup load of a missing or malformed file (undecodable, or of the
\* wrong schema) yields the empty store, never a partly populated one.
C6_MalformedLoadsEmpty ==
    (JustStarted /\ (MEMORY_FILE.kind = "missing" \/ Malformed(MEMORY_FILE)))
    => (conversations = EmptyDict /\ user_profiles = EmptyDict)

\* Every conversation starts with the system message and holds it once.
C7_SystemFirstOnce ==
    \A u \in DOMAIN conversations :
        /\ Len(conversations[u]) >= 1
        /\ conversations[u][1] = SystemMsg
        /\ Cardinality({i \in 1..Len(conversations[u]) : IsSystem(conversations[u][i])}) = 1

\* While the process lives a conversation is never replaced and only grows at
\* its end, and a new one appears only in a turn of its user.
C7_NeverReplaced ==
    crashes' = crashes
    => /\ \A u \in DOMAIN conversations :
             /\ u \in DOMAIN conversations'
             /\ IsPrefix(conversations[u], conversations'[u])
       /\ \A u \in (DOMAIN conversations') \ (DOMAIN conversations) :
             last'.kind \in {"start", "raised"} /\ last'.user = u

\* C7: in every reachable state every conversation starts with the system
\* message and holds it once; it is inserted only at the first contact of an
\* unseen user id, and no later turn (of a user created here or loaded, or of
\* two overlapping first contacts) inserts another, replaces the list or
\* changes its first entry.
C7_SystemMessage == []C7_SystemFirstOnce /\ [][C7_NeverReplaced]_vars

\* Two first-contact turns of one new user overlap.
C7_Witness ==
    \E u \in Users :
        /\ u \notin DOMAIN boot
        /\ Cardinality(InFlightOf(u)) = 2
        /\ Len(conversations[u]) = 3

\* C8: a process calls get_profile at most once for a user, whatever the call
\* returned.
C8_FetchedAtMostOnce == \A u \in Users : fetches[u] <= 1

Positions(ev, op) == {i \in 1..Len(ev) : ev[i] = op}

\* C9: a turn that returns has called save_memory exactly once, after it
\* appended the assistant message and before it returned, on every path: a
\* save that succeeded wrote the conversation with that message at its end.
C9_OneSavePerTurn ==
    last.kind = "resume"
    => /\ Cardinality(Positions(last.ev, "save_memory")) = 1
       /\ Cardinality(Positions(last.ev, "append_assistant")) = 1
       /\ Positions(last.ev, "return") = {Len(last.ev)}
       /\ \A i \in Positions(last.ev, "append_assistant") :
             \A j \in Positions(last.ev, "save_memory") : i < j
       /\ ~stale =>
             LET h == Load(MEMORY_FILE).conversations[last.user]
             IN  h = conversations[last.user] /\ h[Len(h)] = AIMessage(last.reply)

C9_Witness ==
    /\ last.kind = "resume"
    /\ last.outcome = "error"
    /\ ~stale
    /\ last.ev = <<"append_assistant", "save_memory", "return">>

\* Write-through: between turns, unless the latest save raised, the file
\* decodes to the store in memory.
C10_Durable ==
    (inflight = {} /\ ~stale)
    => /\ Load(MEMORY_FILE).conversations = conversations
       /\ Load(MEMORY_FILE).profiles = user_profiles

\* A crash and restart loses of a conversation at most the messages of the turns
\* that were in flight (two for each: the user message and the reply): a
\* conversation that was loaded, or that a returned turn wrote to, is still there.
C10_CrashLosesInFlightOnly ==
    (crashes' = crashes + 1 /\ ~stale)
    => \A u \in DOMAIN conversations :
          (u \in DOMAIN boot \/ log[u] # <<>>)
          => /\ u \in DOMAIN conversations'
             /\ IsPrefix(conversations'[u], conversations[u])
             /\ Len(conversations'[u])
                  >= Len(conversations[u]) - 2 * Cardinality(InFlightOf(u))

\* C10: write-through durability: with no turn in flight and no failed save the
\* file decodes to the store in memory, so a crash between turns loses nothing
\* and a crash during a turn loses at most the messages of the turns in flight.
C10_WriteThrough == []C10_Durable /\ [][C10_CrashLosesInFlightOnly]_vars

\* The store a save_memory of turn t may be writing: the store in memory once
\* the turn has appended its reply.
BeingSaved(t) ==
    {[conversations |-> FinishTurn(conversations, user_profiles, MEMORY_FILE, stale,
                                   t.user, t.text, outcome, modelText, "ok", "ok",
                                   "ok").conv,
      profiles |-> user_profiles] :
        outcome \in Outcomes, modelText \in ModelTexts}

\* C11: a crash at any point during save_memory leaves no partly written file
\* to be seen: the startup load after it yields the store of the previous
\* completed save or the store that was being saved, never an empty or
\* truncated one.
C11_NoPartialFile ==
    [][ last'.kind = "crash_in_save"
        => \/ [conversations |-> conversations', profiles |-> user_profiles']
                = Load(MEMORY_FILE)
           \/ \E t \in InFlightOf(last'.user) :
                 [conversations |-> conversations', profiles |-> user_profiles']
                   \in BeingSaved(t)
      ]_vars

\* The turn of the step as it would have run had none of its side effects failed.
Unfailed ==
    FinishTurn(conversations, user_profiles, MEMORY_FILE, stale, last'.user,
               last'.text, last'.outcome, last'.model, "ok", "ok", "ok")

SideEffects == {"sheet_user", "sheet_bot", "save_memory"}

\* C12: failures of the side effects are isolated: when the append of the user
\* row, the append of the reply row or save_memory fails, the turn returns the
\* same reply and leaves the same conversations and profiles in memory as if
\* the call had succeeded, makes the same calls after it, and makes no call
\* twice.
C12_FailuresIsolated ==
    [][ last'.kind = "resume"
        => /\ last'.reply = Unfailed.reply
           /\ conversations' = Unfailed.conv
           /\ user_profiles' = user_profiles
           /\ last'.ev = Unfailed.ev
           /\ \A op \in SideEffects : Cardinality(Positions(last'.ev, op)) <= 1
      ]_vars

\* A turn whose three side effects all failed.
C12_Witness ==
    /\ last.kind = "resume"
    /\ last.outcome = "ok"
    /\ last.rows = <<>>
    /\ stale
    /\ last.ev = <<"append_assistant", "sheet_user", "sheet_bot", "save_memory", "return">>
    /\ last.reply \in ModelTexts
    /\ LET h == conversations[last.user]
       IN  h[Len(h)] = AIMessage(last.reply)

\* C13: every exchange is logged to the audit sheet: a turn that returns a
\* reply, be it the model's text, the timeout fallback or the generic
\* fallback, has attempted one append of the user row and then one append of
\* the reply row.
C13_EveryExchangeLogged ==
    last.kind = "resume"
    => /\ Cardinality(Positions(last.ev, "sheet_user")) = 1
       /\ Cardinality(Positions(last.ev, "sheet_bot")) = 1
       /\ \A i \in Positions(last.ev, "sheet_user") :
             \A j \in Positions(last.ev, "sheet_bot") : i < j

\* The number of user messages in a conversation.
UserMessages(history) ==
    Cardinality({i \in 1..Len(history) : history[i].cls = "HumanMessage"})

\* C14: whenever no turn of a user is in flight, the total_messages of the
\* user's profile is the number of user messages in the user's conversation.
C14_CountsUserMessages ==
    \A u \in DOMAIN conversations :
        InFlightOf(u) = {}
        => /\ u \in DOMAIN user_profiles
           /\ Get(user_profiles[u], "total_messages", 0) = UserMessages(conversations[u])

\* C15: within a turn the user message is appended before the model is
\* invoked, and the model is handed the whole conversation as it then is: the
\* system message, everything recorded earlier in order, and the turn's user
\* message as the last entry.
C15_FullHistoryHanded ==
    [][ last'.kind = "start"
        => /\ \A i \in Positions(last'.ev, "append_user") :
                 \A j \in Positions(last'.ev, "invoke") : i < j
           /\ Cardinality(Positions(last'.ev, "append_user")) = 1
           /\ Cardinality(Positions(last'.ev, "invoke")) = 1
           /\ last'.history = conversations'[last'.user]
           /\ last'.history
                = Append(IF last'.user \in DOMAIN conversations
                         THEN conversations[last'.user] ELSE <<SystemMsg>>,
                         HumanMessage(last'.text))
           /\ IsSystem(Head(last'.history))
      ]_vars

\* The second turn of a user is handed the first exchange and its own message.
C15_Witness ==
    /\ last.kind = "start"
    /\ Len(log[last.user]) = 1
    /\ last.history = <<SystemMsg, HumanMessage(log[last.user][1][1]),
                        AIMessage(log[last.user][1][2]), HumanMessage(last.text)>>

\* The outcome of the model call of a turn that returned reply.
OutcomeOf(reply) ==
    IF reply = timeout_reply THEN "timeout"
    ELSE IF reply = fallback THEN "error"
    ELSE "ok"

\* The store after the turns <<text, reply>> of user u have run one after
\* another, with no other turn in between.
RECURSIVE RunAlone(_, _, _)
RunAlone(store, u, turns) ==
    IF turns = <<>> THEN store
    ELSE LET text == Head(turns)[1]
             reply == Head(turns)[2]
             b == BeginTurn(store.conv, store.prof, u, text, 0,
                            CHOOSE fr \in FetchResults : TRUE)
             f == FinishTurn(b.conv, b.prof, Missing, FALSE, u, text,
                             OutcomeOf(reply), reply, "ok", "ok", "ok")
         IN  RunAlone([conv |-> f.conv, prof |-> b.prof], u, Tail(turns))

\* The conversation of u had the turns of u run alone in this process: from
\* what the process loaded for u, the returned turns, then the suspended one
\* up to its await.
Alone(u) ==
    LET mine == {u} \cap DOMAIN boot
        loaded == [conv |-> [x \in mine |-> boot[x]],
                   prof |-> [x \in mine \cap DOMAIN user_profiles |-> user_profiles[x]]]
        done == RunAlone(loaded, u, log[u])
    IN  IF InFlightOf(u) = {} THEN done.conv[u]
        ELSE BeginTurn(done.conv, done.prof, u,
                       (CHOOSE t \in InFlightOf(u) : TRUE).text, 0,
                       CHOOSE fr \in FetchResults : TRUE).conv[u]

C16_AsAlone ==
    \A u \in Users :
        (clean[u] /\ u \in DOMAIN conversations) => conversations[u] = Alone(u)

\* A step of a turn of one user leaves every other user as it was: with or
\* without a conversation and a profile, and these unchanged.
C16_Frame ==
    last'.kind \in {"start", "raised", "resume"}
    => \A u \in Users \ {last'.user} :
          /\ (u \in DOMAIN conversations') = (u \in DOMAIN conversations)
          /\ (u \in DOMAIN user_profiles') = (u \in DOMAIN user_profiles)
          /\ u \in DOMAIN conversations => conversations'[u] = conversations[u]
          /\ u \in DOMAIN user_profiles => user_profiles'[u] = user_profiles[u]

\* C16: however the turns of different users interleave, a turn of user A
\* changes A's conversation and A's profile only: every step of it leaves the
\* conversation and the profile of every other user unchanged, and each user's
\* conversation is the one the user's own turns produce when run alone.
C16_TurnsIsolated == []C16_AsAlone /\ [][C16_Frame]_vars

\* A whole turn of one user ran while the turn of another user, which began
\* first, was suspended.
C16_Witness ==
    /\ last.kind = "resume"
    /\ \E t \in inflight :
          /\ t.user # last.user
          /\ t.text = InboundText(1)
          /\ last.text = InboundText(2)
          /\ conversations[t.user] = <<SystemMsg, HumanMessage(t.text)>>
          /\ conversations[last.user]
               = <<SystemMsg, HumanMessage(last.text), AIMessage(last.reply)>>

\* C17: in every reachable state, the state right after the startup load of any
\* file the load accepts included, the user ids with a conversation are the
\* user ids with a profile and every profile has a display_name, so that no
\* turn raises on a missing profile.
C17_ProfileForEveryConversation ==
    /\ DOMAIN conversations = DOMAIN user_profiles
    /\ \A u \in DOMAIN user_profiles : "display_name" \in DOMAIN user_profiles[u]
    /\ last.kind # "raised"

\* A conversation as written to the file: the system entry, then complete
\* pairs of a user entry and an assistant entry.
Paired(entries) ==
    /\ Len(entries) >= 1
    /\ Get(entries[1], "role", "") = "system"
    /\ (Len(entries) - 1) % 2 = 0
    /\ \A i \in 2..Len(entries) :
          Get(entries[i], "type", "") = (IF i % 2 = 0 THEN "human" ELSE "ai")

\* C18: a file save_memory has written in full holds, for every user (whose
\* own turns do not overlap), the system message followed by complete (user,
\* assistant) pairs: no user message is saved before its reply is recorded,
\* also when the save runs at the end of one user's turn while the turn of
\* another user is suspended on the model call.
C18_OnlyCompleteExchangesSaved ==
    (last.kind = "resume" /\ ~stale)
    => \A u \in DOMAIN MEMORY_FILE.doc["conversations"] :
          clean[u] => Paired(MEMORY_FILE.doc["conversations"][u])

====
